---------------------------- MODULE Spec2Model ----------------------------
(***************************************************************************)
(* Model of src/pg_tsquery.rs: the tsquery wire codec (TryFrom<&[u8]> and  *)
(* ToSql for PgTsQuery) and the infix renderer (infix_string, used by      *)
(* Display).                                                               *)
(*                                                                         *)
(* A Rust String is a UTF-8 byte buffer, so every string of the program    *)
(* (Value.text, the renderer's stack entries, the rendered output) is a    *)
(* sequence of bytes 0..255 here.  B("...") turns a literal into bytes.    *)
(* Option<T> is the empty sequence (None) or a one-element sequence.       *)
(***************************************************************************)
EXTENDS Integers, Sequences, FiniteSets, TLC

(***************************************************************************)
(* Bytes and string literals                                               *)
(***************************************************************************)
Byte == 0..255

\* The printable ASCII characters from '#' (35) to '[' (91).
AsciiLow == "#$%&'()*+,-./0123456789:;<=>?@ABCDEFGHIJKLMNOPQRSTUVWXYZ["

\* The printable ASCII characters from 'a' (97) to '~' (126).
AsciiHigh == "abcdefghijklmnopqrstuvwxyz{|}~"

\* The byte of a one-character string (space, '!' and the two ranges above).
Ord(c) ==
    CASE c = " " -> 32
      [] c = "!" -> 33
      [] \E i \in 1..Len(AsciiLow) : SubSeq(AsciiLow, i, i) = c ->
            34 + CHOOSE i \in 1..Len(AsciiLow) : SubSeq(AsciiLow, i, i) = c
      [] \E i \in 1..Len(AsciiHigh) : SubSeq(AsciiHigh, i, i) = c ->
            96 + CHOOSE i \in 1..Len(AsciiHigh) : SubSeq(AsciiHigh, i, i) = c

\* The UTF-8 bytes of a printable ASCII literal (str::as_bytes).
B(s) == [i \in 1..Len(s) |-> Ord(SubSeq(s, i, i))]

None == <<>>
Some(x) == <<x>>

RECURSIVE Concat(_)
\* Concatenation of a sequence of byte sequences.
Concat(ss) == IF ss = <<>> THEN <<>> ELSE Head(ss) \o Concat(Tail(ss))

(***************************************************************************)
(* Token model                                                             *)
(***************************************************************************)
\* enum Operators { Not = 1, And = 2, Or = 3, Phrase = 4 }
Operators == {"Not", "And", "Or", "Phrase"}

\* impl From<Operators> for i8
OperatorsToI8(val) ==
    CASE val = "Not"    -> 1
      [] val = "And"    -> 2
      [] val = "Or"     -> 3
      [] val = "Phrase" -> 4

\* OperatorsTryFrom with a catch-all arm that accepts every other code as Or.
OperatorsTryFromLenient(value) ==
    CASE value = 1 -> Some("Not")
      [] value = 2 -> Some("And")
      [] value = 4 -> Some("Phrase")
      [] OTHER     -> Some("Or")

\* impl TryFrom<i8> for Operators: Some(kind), or None for Err("Invalid type").
OperatorsTryFrom(value) ==
    CASE value = 1 -> Some("Not")
      [] value = 2 -> Some("And")
      [] value = 3 -> Some("Or")
      [] value = 4 -> Some("Phrase")
      [] OTHER     -> None

\* struct Operator { operator, distance: Option<i16> }
Operator(op, dist) == [type |-> "Operator", operator |-> op, distance |-> dist]

\* struct Value { weight: u8, text: String, prefix: u8, distance: i16 }
Value(w, t, p, d) == [type |-> "Value", weight |-> w, text |-> t, prefix |-> p, distance |-> d]

\* impl From<EntryType> for u8
EntryTypeToU8(t) == IF t = "Value" THEN 1 ELSE 2

(***************************************************************************)
(* Fixed-width integers on the wire (bytes::BufMut, byteorder)             *)
(***************************************************************************)
\* put_u32: four bytes, network endian.  (`len as u32` keeps the low 32 bits;
\* every length of this model is below 2^31, where the cast changes nothing.)
put_u32(n) == << n \div 16777216, (n \div 65536) % 256, (n \div 256) % 256, n % 256 >>

\* put_i8: the two's complement byte of a signed 8-bit integer.
put_i8(n) == << n % 256 >>

\* put_i16: two bytes, network endian, two's complement.
put_i16(n) == LET m == n % 65536 IN << m \div 256, m % 256 >>

\* The i8 read back from one byte.
I8(b) == IF b >= 128 THEN b - 256 ELSE b

\* The i16 read back from two bytes, network endian.
I16(hi, lo) == LET m == hi * 256 + lo IN IF m >= 32768 THEN m - 65536 ELSE m

\* The u32 read back from four bytes, network endian.
U32(b0, b1, b2, b3) == ((b0 * 256 + b1) * 256 + b2) * 256 + b3

(***************************************************************************)
(* Encode: impl ToSql for PgTsQuery                                        *)
(***************************************************************************)
\* EncodeEntry without the NUL terminator after a value's text.
EncodeEntryNoTerminator(entry) ==
    IF entry.type = "Operator"
    THEN << EntryTypeToU8("Operator") >>
         \o put_i8(OperatorsToI8(entry.operator))
         \o (IF entry.operator = "Phrase"
             THEN put_i16(IF entry.distance = None THEN 1 ELSE entry.distance[1])
             ELSE <<>>)
    ELSE << EntryTypeToU8("Value"), entry.weight, entry.prefix >>
         \o entry.text

\* The bytes to_sql writes for one entry.
EncodeEntry(entry) ==
    IF entry.type = "Operator"
    THEN << EntryTypeToU8("Operator") >>
         \o put_i8(OperatorsToI8(entry.operator))
         \o (IF entry.operator = "Phrase"
             THEN put_i16(IF entry.distance = None THEN 1 ELSE entry.distance[1])
             ELSE <<>>)
    ELSE << EntryTypeToU8("Value"), entry.weight, entry.prefix >>
         \o entry.text
         \o << 0 >>

\* to_sql: the entry count, then every entry in storage order.
to_sql(entries) ==
    put_u32(Len(entries)) \o Concat([i \in 1..Len(entries) |-> EncodeEntry(entries[i])])

(***************************************************************************)
(* Decode: impl TryFrom<&[u8]> for PgTsQuery                               *)
(*                                                                         *)
(* The reader is a Cursor over the buffer; `position` counts the bytes     *)
(* already consumed, so the next byte read is bytes[position + 1].         *)
(***************************************************************************)
\* The number of text bytes a value may hold: (1 << 11) - 1.
MaxOperandLen == 2047

\* The largest i16, the limit of `text.len().to_i16()`.
I16Max == 32767

\* The largest weight byte the decoder accepts.
MaxWeight == 15

\* One byte in 0x80..0xBF, a UTF-8 continuation byte.
IsCont(b) == b >= 128 /\ b <= 191

RECURSIVE Utf8From(_, _)
\* Whether t[i..] is a sequence of well-formed UTF-8 scalar values.
Utf8From(t, i) ==
    IF i > Len(t) THEN TRUE
    ELSE LET b    == t[i]
             c(k) == IF i + k <= Len(t) THEN t[i + k] ELSE 0
         IN  CASE b <= 127 -> Utf8From(t, i + 1)
               [] b >= 194 /\ b <= 223 -> IsCont(c(1)) /\ Utf8From(t, i + 2)
               [] b = 224 -> c(1) >= 160 /\ c(1) <= 191 /\ IsCont(c(2)) /\ Utf8From(t, i + 3)
               [] (b >= 225 /\ b <= 236) \/ b = 238 \/ b = 239 ->
                     IsCont(c(1)) /\ IsCont(c(2)) /\ Utf8From(t, i + 3)
               [] b = 237 -> c(1) >= 128 /\ c(1) <= 159 /\ IsCont(c(2)) /\ Utf8From(t, i + 3)
               [] b = 240 -> c(1) >= 144 /\ c(1) <= 191 /\ IsCont(c(2)) /\ IsCont(c(3))
                             /\ Utf8From(t, i + 4)
               [] b >= 241 /\ b <= 243 -> IsCont(c(1)) /\ IsCont(c(2)) /\ IsCont(c(3))
                                          /\ Utf8From(t, i + 4)
               [] b = 244 -> c(1) >= 128 /\ c(1) <= 143 /\ IsCont(c(2)) /\ IsCont(c(3))
                             /\ Utf8From(t, i + 4)
               [] OTHER -> FALSE

\* str::from_utf8(&text).is_ok(); a text of ASCII bytes only is always valid.
from_utf8_ok(t) == (\A i \in 1..Len(t) : t[i] <= 127) \/ Utf8From(t, 1)

\* The outcomes of one pass through the body of `for _ in 0..count`.
Push(entry, pos) == [kind |-> "Push", entry |-> entry, position |-> pos]
Skip(pos)        == [kind |-> "Skip", position |-> pos]
Fail(err)        == [kind |-> "Err", err |-> err]
Panicked         == [kind |-> "Panic"]

\* The error of a read past the end of the buffer (`?` on an io::Error).
UnexpectedEof == "UnexpectedEof"

\* read_until(0, &mut text): the bytes from pos up to and including the
\* first 0 byte, or up to the end of the buffer when there is none.
read_until(bytes, pos) ==
    LET zeros == {j \in (pos + 1)..Len(bytes) : bytes[j] = 0}
        stop  == IF zeros = {} THEN Len(bytes)
                 ELSE CHOOSE j \in zeros : \A k \in zeros : j <= k
    IN  SubSeq(bytes, pos + 1, stop)

\* Vec::pop: drops the last element, if there is one.
pop(v) == IF v = <<>> THEN v ELSE SubSeq(v, 1, Len(v) - 1)

\* The operator branch with the check made when the code is the last byte.
DecodeOperatorLastByte(bytes, pos) ==
    IF pos >= Len(bytes) THEN Fail(UnexpectedEof)
    ELSE LET operator_type == OperatorsTryFrom(I8(bytes[pos + 1]))
             position      == pos + 1
         IN  IF operator_type = None THEN Fail("Invalid type")
             ELSE IF position = Len(bytes)
                  THEN Fail("Invalid tsquery: invalid pointer to right operand")
             ELSE IF operator_type = Some("Phrase")
                  THEN IF Len(bytes) - position < 2 THEN Fail(UnexpectedEof)
                       ELSE Push(Operator("Phrase",
                                          Some(I16(bytes[position + 1], bytes[position + 2]))),
                                 position + 2)
             ELSE Push(Operator(operator_type[1], None), position)

\* The `entry_type == 2` branch, entered with the cursor after the
\* discriminator.
DecodeOperator(bytes, pos) ==
    IF pos >= Len(bytes) THEN Fail(UnexpectedEof)
    ELSE LET operator_type == OperatorsTryFrom(I8(bytes[pos + 1]))
             position      == pos + 1
         IN  IF operator_type = None THEN Fail("Invalid type")
             ELSE IF position = Len(bytes) - 1
                  THEN Fail("Invalid tsquery: invalid pointer to right operand")
             ELSE IF operator_type = Some("Phrase")
                  THEN IF Len(bytes) - position < 2 THEN Fail(UnexpectedEof)
                       ELSE Push(Operator("Phrase",
                                          Some(I16(bytes[position + 1], bytes[position + 2]))),
                                 position + 2)
             ELSE Push(Operator(operator_type[1], None), position)

\* The value branch without the `text.pop()` that drops the terminator.
DecodeValueKeepsNul(bytes, pos) ==
    IF Len(bytes) - pos < 1 THEN Fail(UnexpectedEof)
    ELSE IF Len(bytes) - pos < 2 THEN Fail(UnexpectedEof)
    ELSE LET weight   == bytes[pos + 1]
             prefix   == bytes[pos + 2]
             read     == read_until(bytes, pos + 2)
             text     == read
             val_len  == Len(text)
         IN  IF ~from_utf8_ok(text) THEN Fail("Utf8Error")
             ELSE IF val_len > I16Max THEN Panicked
             ELSE IF weight > MaxWeight THEN Fail("Invalid tsquery: invalid weight")
             ELSE IF val_len > MaxOperandLen THEN Fail("Invalid tsquery: operand too long")
             ELSE Push(Value(weight, text, prefix, val_len + 1), pos + 2 + Len(read))

\* The `entry_type == 1` branch, entered with the cursor after the
\* discriminator.
DecodeValue(bytes, pos) ==
    IF Len(bytes) - pos < 1 THEN Fail(UnexpectedEof)
    ELSE IF Len(bytes) - pos < 2 THEN Fail(UnexpectedEof)
    ELSE LET weight   == bytes[pos + 1]
             prefix   == bytes[pos + 2]
             read     == read_until(bytes, pos + 2)
             text     == pop(read)
             val_len  == Len(text)
         IN  IF ~from_utf8_ok(text) THEN Fail("Utf8Error")
             ELSE IF val_len > I16Max THEN Panicked
             ELSE IF weight > MaxWeight THEN Fail("Invalid tsquery: invalid weight")
             ELSE IF val_len > MaxOperandLen THEN Fail("Invalid tsquery: operand too long")
             ELSE Push(Value(weight, text, prefix, val_len + 1), pos + 2 + Len(read))

\* The loop body with a third arm that rejects an unknown discriminator.
DecodeEntryStrict(bytes, pos) ==
    IF pos >= Len(bytes) THEN Fail(UnexpectedEof)
    ELSE LET entry_type == bytes[pos + 1]
         IN  IF entry_type = 2 THEN DecodeOperator(bytes, pos + 1)
             ELSE IF entry_type = 1 THEN DecodeValue(bytes, pos + 1)
             ELSE Fail("Invalid type")

\* One pass through the loop body: read the discriminator, then the entry.
DecodeEntry(bytes, pos) ==
    IF pos >= Len(bytes) THEN Fail(UnexpectedEof)
    ELSE LET entry_type == bytes[pos + 1]
         IN  IF entry_type = 2 THEN DecodeOperator(bytes, pos + 1)
             ELSE IF entry_type = 1 THEN DecodeValue(bytes, pos + 1)
             ELSE Skip(pos + 1)

(***************************************************************************)
(* Render: infix_string and weight_to_string                               *)
(*                                                                         *)
(* The stack is a Vec<String>: its top is its last element.                *)
(***************************************************************************)
\* weight_to_string with the labels of 6 and 5 exchanged.
weight_to_string_swapped(weight) ==
    CASE weight = 0  -> None
      [] weight = 8  -> Some(B("A"))
      [] weight = 4  -> Some(B("B"))
      [] weight = 2  -> Some(B("C"))
      [] weight = 1  -> Some(B("D"))
      [] weight = 12 -> Some(B("AB"))
      [] weight = 10 -> Some(B("AC"))
      [] weight = 9  -> Some(B("AD"))
      [] weight = 6  -> Some(B("BD"))
      [] weight = 5  -> Some(B("BC"))
      [] weight = 3  -> Some(B("CD"))
      [] weight = 14 -> Some(B("ABC"))
      [] weight = 13 -> Some(B("ABD"))
      [] weight = 11 -> Some(B("ACD"))
      [] weight = 7  -> Some(B("BCD"))
      [] weight = 15 -> Some(B("ABCD"))
      [] OTHER       -> None

\* fn weight_to_string(weight: u8) -> Option<&'static str>
weight_to_string(weight) ==
    CASE weight = 0  -> None
      [] weight = 8  -> Some(B("A"))
      [] weight = 4  -> Some(B("B"))
      [] weight = 2  -> Some(B("C"))
      [] weight = 1  -> Some(B("D"))
      [] weight = 12 -> Some(B("AB"))
      [] weight = 10 -> Some(B("AC"))
      [] weight = 9  -> Some(B("AD"))
      [] weight = 6  -> Some(B("BC"))
      [] weight = 5  -> Some(B("BD"))
      [] weight = 3  -> Some(B("CD"))
      [] weight = 14 -> Some(B("ABC"))
      [] weight = 13 -> Some(B("ABD"))
      [] weight = 11 -> Some(B("ACD"))
      [] weight = 7  -> Some(B("BCD"))
      [] weight = 15 -> Some(B("ABCD"))
      [] OTHER       -> None

RECURSIVE Digits(_)
\* The decimal digits of a natural number, most significant first.
Digits(n) == IF n < 10 THEN << 48 + n >> ELSE Digits(n \div 10) \o << 48 + (n % 10) >>

\* format!("{distance}") of an i16.
FormatI16(n) == IF n < 0 THEN B("-") \o Digits(-n) ELSE Digits(n)

\* FormatValue with the weight label tried before the prefix flag.
FormatValueWeightFirst(val) ==
    IF weight_to_string(val.weight) # None
    THEN B("'") \o val.text \o B("':") \o weight_to_string(val.weight)[1]
    ELSE IF val.prefix > 0
         THEN B("'") \o val.text \o B("':*")
         ELSE B("'") \o val.text \o B("'")

\* The Entry::Value arm: the string pushed for a value.
FormatValue(val) ==
    IF val.prefix > 0
    THEN B("'") \o val.text \o B("':*")
    ELSE IF weight_to_string(val.weight) # None
         THEN B("'") \o val.text \o B("':") \o weight_to_string(val.weight)[1]
         ELSE B("'") \o val.text \o B("'")

\* PhraseOpStr that prints an explicit distance of 1 as a number.
PhraseOpStrExplicitOne(distance) ==
    IF distance = None
    THEN B("<->")
    ELSE B("<") \o FormatI16(distance[1]) \o B(">")

\* The connective of the Operators::Phrase arm.
PhraseOpStr(distance) ==
    IF distance = None \/ distance = Some(1)
    THEN B("<->")
    ELSE B("<") \o FormatI16(distance[1]) \o B(">")

\* FormatBinary that also parenthesizes when the tier equals the priority.
FormatBinaryWrapsEqual(left, op_str, right, tier, prio, n, length) ==
    IF tier >= prio /\ n # length - 1
    THEN B("(") \o left \o B(" ") \o op_str \o B(" ") \o right \o B(")")
    ELSE left \o B(" ") \o op_str \o B(" ") \o right

\* The string pushed by the And and Or arms: `tier.cmp(&priority)` is
\* Greater exactly when tier > priority, and only then may parentheses appear.
FormatBinary(left, op_str, right, tier, prio, n, length) ==
    IF tier > prio /\ n # length - 1
    THEN B("(") \o left \o B(" ") \o op_str \o B(" ") \o right \o B(")")
    ELSE left \o B(" ") \o op_str \o B(" ") \o right

\* PopTwo that leaves a lone string on the stack.
PopTwoKeepOne(st) == IF Len(st) >= 2 THEN SubSeq(st, 1, Len(st) - 2) ELSE st

\* The stack after both pops of `(stack.pop(), stack.pop())`, whether or not
\* the pattern (Some(right), Some(left)) matched.
PopTwo(st) == IF Len(st) >= 2 THEN SubSeq(st, 1, Len(st) - 2) ELSE <<>>

\* RenderNot that pushes a bare "!" when the stack is empty.
RenderNotBare(st, prio) ==
    IF st # <<>>
    THEN [stack |-> Append(pop(st), B("!") \o st[Len(st)]), priority |-> 1]
    ELSE [stack |-> << B("!") >>, priority |-> 1]

\* Operators::Not: `if let Some(operand) = stack.pop()`.
RenderNot(st, prio) ==
    IF st # <<>>
    THEN [stack |-> Append(pop(st), B("!") \o st[Len(st)]), priority |-> 1]
    ELSE [stack |-> st, priority |-> prio]

\* The AND arm with the first string popped taken as the left operand.
RenderAndSwapped(st, prio, n, length) ==
    IF Len(st) >= 2
    THEN [stack |-> Append(PopTwo(st),
                           FormatBinary(st[Len(st)], B("&"), st[Len(st) - 1],
                                        2, prio, n, length)),
          priority |-> 2]
    ELSE [stack |-> PopTwo(st), priority |-> prio]

\* Operators::And: right is the first string popped, left the second.
RenderAnd(st, prio, n, length) ==
    IF Len(st) >= 2
    THEN [stack |-> Append(PopTwo(st),
                           FormatBinary(st[Len(st) - 1], B("&"), st[Len(st)],
                                        2, prio, n, length)),
          priority |-> 2]
    ELSE [stack |-> PopTwo(st), priority |-> prio]

\* The OR arm with the right operand written on both sides.
RenderOrDropsLeft(st, prio, n, length) ==
    IF Len(st) >= 2
    THEN [stack |-> Append(PopTwo(st),
                           FormatBinary(st[Len(st)], B("|"), st[Len(st)],
                                        3, prio, n, length)),
          priority |-> 3]
    ELSE [stack |-> PopTwo(st), priority |-> prio]

\* Operators::Or
RenderOr(st, prio, n, length) ==
    IF Len(st) >= 2
    THEN [stack |-> Append(PopTwo(st),
                           FormatBinary(st[Len(st) - 1], B("|"), st[Len(st)],
                                        3, prio, n, length)),
          priority |-> 3]
    ELSE [stack |-> PopTwo(st), priority |-> prio]

\* The PHRASE arm under the parenthesization rule of the And and Or arms.
RenderPhraseParenthesized(distance, st, prio) ==
    IF Len(st) >= 2
    THEN [stack |-> Append(PopTwo(st),
                           IF 4 > prio
                           THEN B("(") \o st[Len(st) - 1] \o B(" ") \o PhraseOpStr(distance)
                                       \o B(" ") \o st[Len(st)] \o B(")")
                           ELSE st[Len(st) - 1] \o B(" ") \o PhraseOpStr(distance)
                                                \o B(" ") \o st[Len(st)]),
          priority |-> 4]
    ELSE [stack |-> PopTwo(st), priority |-> prio]

\* Operators::Phrase: never parenthesized.
RenderPhrase(distance, st, prio) ==
    IF Len(st) >= 2
    THEN [stack |-> Append(PopTwo(st),
                           st[Len(st) - 1] \o B(" ") \o PhraseOpStr(distance)
                                           \o B(" ") \o st[Len(st)]),
          priority |-> 4]
    ELSE [stack |-> PopTwo(st), priority |-> prio]

\* One pass through the body of `for num in 0..len` for the popped entry:
\* the stack and the priority it leaves.
RenderEntry(entry, st, prio, n, length) ==
    CASE entry.type = "Value" ->
            [stack |-> Append(st, FormatValue(entry)), priority |-> prio]
      [] entry.type = "Operator" /\ entry.operator = "Not" -> RenderNot(st, prio)
      [] entry.type = "Operator" /\ entry.operator = "And" -> RenderAnd(st, prio, n, length)
      [] entry.type = "Operator" /\ entry.operator = "Or" -> RenderOr(st, prio, n, length)
      [] entry.type = "Operator" /\ entry.operator = "Phrase" ->
            RenderPhrase(entry.distance, st, prio)

\* The strings run together, as stack.concat() would give them.
RECURSIVE JoinConcat(_, _)
JoinConcat(st, sep) == IF st = <<>> THEN <<>> ELSE st[1] \o JoinConcat(Tail(st), sep)

RECURSIVE Join(_, _)
\* stack.join(sep)
Join(st, sep) ==
    IF st = <<>> THEN <<>>
    ELSE IF Len(st) = 1 THEN st[1]
    ELSE st[1] \o sep \o Join(Tail(st), sep)

(***************************************************************************)
(* Inputs                                                                  *)
(***************************************************************************)
\* Longest generated entry sequence handed to the renderer.
MaxRenderEntries == 4

\* Longest generated entry sequence handed to the encoder.
MaxCodecEntries == 2

\* Largest entry count declared by a generated buffer.
MaxCount == 2

\* Longest generated buffer body (the bytes after the 4-byte count).
MaxBody == 4

\* All sequences over `alphabet` of length 0..n.
SeqsUpTo(alphabet, n) == UNION {[1..k -> alphabet] : k \in 0..n}

\* A value as the decoder builds it: weight 0, no prefix, derived distance.
Lexeme(s) == Value(0, B(s), 0, Len(s) + 1)

\* Entries of the generated renderer inputs.
RenderAlphabet ==
    { Operator("Not", None), Operator("And", None), Operator("Or", None),
      Operator("Phrase", Some(2)), Lexeme("a"), Lexeme("b") }

\* Entries of the generated encoder inputs: operators with and without a
\* distance, values inside and outside the decoder's constraints.
CodecAlphabet ==
    { Operator("Not", None), Operator("And", Some(2)), Operator("Phrase", None),
      Operator("Phrase", Some(1)), Operator("Phrase", Some(-2)) }
    \cup { Value(w, t, p, Len(t) + 1) : w \in {0, 15}, t \in {<<>>, B("a")}, p \in {0, 2} }
    \cup { Value(0, B("a"), 0, 0), Value(15, <<>>, 2, 7),
           Value(15, <<195, 169>>, 1, 3), Value(16, B("a"), 0, 2),
           Value(0, <<97, 0, 98>>, 0, 4) }

\* One value of every weight byte, with and without the prefix flag.
WeightQueries == { << Value(w, B("a"), p, 2) >> : w \in Byte, p \in {0, 1, 255} }

\* n copies of the byte b.
Repeat(b, n) == [i \in 1..n |-> b]

\* A single value whose text is as long as the decoder allows, and one byte
\* longer.
LongQueries ==
    { << Value(0, Repeat(97, n), 0, n + 1) >> : n \in {MaxOperandLen, MaxOperandLen + 1} }

\* One phrase of every kind of distance over two values.
PhraseQueries ==
    { << Operator("Phrase", d), Lexeme("a"), Lexeme("b") >> :
        d \in {None} \cup { Some(n) : n \in {-32768, -1, 0, 1, 2, 3, 10, 300, 32767} } }

\* The worked example of the header comment: | & eleph ! bird & | cat dog lazi.
WorkedExample ==
    << Operator("Or", None), Operator("And", None), Lexeme("eleph"),
       Operator("Not", None), Lexeme("bird"), Operator("And", None),
       Operator("Or", None), Lexeme("cat"), Lexeme("dog"), Lexeme("lazi") >>

\* Operands stored before their operators: cat rat & fat |.
PostfixExample ==
    << Lexeme("cat"), Lexeme("rat"), Operator("And", None), Lexeme("fat"),
       Operator("Or", None) >>

\* A value stored before the NOT, and after it.
BirdNot == << Lexeme("bird"), Operator("Not", None) >>
NotBird == << Operator("Not", None), Lexeme("bird") >>

\* The 29-byte buffer of the header comment.
DocBuffer ==
    << 0, 0, 0, 5, 2, 3, 1, 0, 0, 99, 97, 116, 0, 2, 2, 1, 0, 0, 114, 97, 116, 0,
       1, 0, 0, 102, 97, 116, 0 >>

\* The buffer of the phrase comment in try_from.
DocPhraseBuffer ==
    << 0, 0, 0, 7, 2, 2, 2, 4, 0, 3, 1, 0, 0, 100, 111, 103, 0,
       1, 0, 0, 108, 97, 122, 105, 0, 2, 4, 0, 2, 1, 0, 0, 102, 111, 120, 0,
       1, 0, 0, 113, 117, 105, 99, 107, 0 >>

\* The buffers of the weight and prefix comments in try_from.
DocWeightBuffer ==
    << 0, 0, 0, 3, 2, 2, 1, 4, 0, 114, 97, 116, 0, 1, 12, 0, 102, 97, 116, 0 >>
DocPrefixBuffer ==
    << 0, 0, 0, 1, 1, 0, 1, 112, 111, 115, 116, 103, 114, 0 >>

\* Bytes of the generated buffers: NUL, both discriminators, the PHRASE
\* code, a letter, and a byte that is no discriminator, operator code,
\* weight or UTF-8 text.
BodyBytes == {0, 1, 2, 4, 97, 255}

\* Generated buffers: a count, then a short body; and buffers too short to
\* hold a count.
GenBuffers ==
    { << 0, 0, 0, n >> \o body : n \in 0..MaxCount, body \in SeqsUpTo(BodyBytes, MaxBody) }
    \cup SeqsUpTo({0}, 3)

\* Two binary operators one after the other, of every pair of kinds, the
\* second one processed being the final entry or not.
PriorityQueries ==
    { tail \o << Operator(o2, None), Lexeme("a"), Operator(o1, None),
                 Lexeme("a"), Lexeme("b") >> :
        o1 \in {"And", "Or", "Phrase"}, o2 \in {"And", "Or", "Phrase"},
        tail \in { <<>>, << Lexeme("b") >> } }

QueryInputs ==
    SeqsUpTo(RenderAlphabet, MaxRenderEntries) \cup SeqsUpTo(CodecAlphabet, MaxCodecEntries)
    \cup WeightQueries \cup PhraseQueries \cup LongQueries \cup PriorityQueries
    \cup {WorkedExample, PostfixExample, BirdNot, NotBird}

\* One value of weight w whose text is n letters and a NUL.
LongBuffer(w, n) == << 0, 0, 0, 1, 1, w, 0 >> \o Repeat(97, n) \o << 0 >>

\* Values around the operand limit and around the largest i16, with a valid
\* and with an invalid weight.
LongBuffers ==
    { LongBuffer(w, n) : w \in {0, 16},
                         n \in {MaxOperandLen, MaxOperandLen + 1, I16Max, I16Max + 1} }

\* Values whose text is not UTF-8 (a lone 0xFF, a truncated two-byte
\* sequence), with a valid and with an invalid weight; and a value whose
\* text is cut off before its NUL.
TextBuffers ==
    { << 0, 0, 0, 1, 1, w, 0 >> \o t \o << 0 >> :
          w \in {0, 15, 16, 255}, t \in { B("ab"), << 255 >>, << 97, 195 >>, << 195, 169 >> } }
    \cup { << 0, 0, 0, 1, 1, 0, 0, 97, 98 >>, << 0, 0, 0, 2, 1, 0, 0, 97, 0, 1, 3, 1, 98, 99 >> }

\* Longest generated entry sequence of the inputs whose behaviours are
\* checked to their end.
MaxFairEntries == 3

\* The inputs whose behaviours are checked to their end.
FairQueries ==
    SeqsUpTo(RenderAlphabet, MaxFairEntries)
    \cup {WorkedExample, PostfixExample, BirdNot, NotBird}
FairBuffers ==
    TextBuffers \cup {DocBuffer, DocPhraseBuffer, DocWeightBuffer, DocPrefixBuffer}

BytesInputs ==
    GenBuffers \cup LongBuffers \cup TextBuffers
    \cup {DocBuffer, DocPhraseBuffer, DocWeightBuffer, DocPrefixBuffer}

(***************************************************************************)
(* The state machine                                                       *)
(*                                                                         *)
(* A caller either holds a PgTsQuery (it encodes it, decodes the bytes     *)
(* written and displays the query) or holds a byte buffer (it decodes it   *)
(* and, when that succeeds, encodes and displays the decoded query), or    *)
(* hands a buffer to FromSql::from_sql.  A caller that displays its query  *)
(* displays it again after having displayed another query.                 *)
(***************************************************************************)
VARIABLES
    input,        \* what the caller started from: a query or a buffer
    pc,           \* the operation in progress
    self,         \* Option<PgTsQuery.entries>: the query the caller holds
    out,          \* Option<bytes>: what to_sql wrote
    bytes,        \* the slice handed to try_from
    position,     \* try_from: reader.position()
    count,        \* try_from: the declared entry count
    iter,         \* try_from: passes through the loop body so far
    entries,      \* try_from: the Vec<Entry> under construction
    result,       \* Option<Result>: what try_from returned
    returned,     \* Option: how from_sql ended, with a Result or with a panic
    rentries,     \* infix_string: its `entries` argument, popped from the tail
    stack,        \* infix_string: the string stack
    priority,     \* infix_string: the running priority
    num,          \* infix_string: the loop counter
    len,          \* infix_string: entries.len() at entry
    labelled,     \* infix_string: the latest weight_to_string call, Option<[weight, label]>
    shown,        \* Option<String>: what Display wrote for the caller's query
    calls,        \* the calls of Display::fmt begun so far
    log           \* what each finished call of Display::fmt wrote, in order

vars == << input, pc, self, out, bytes, position, count, iter, entries, result,
           returned, rentries, stack, priority, num, len, labelled, shown, calls, log >>

codecVars  == << bytes, position, count, iter, entries, result, returned >>
renderVars == << rentries, stack, priority, num, len, labelled, shown, calls, log >>

Ok(es) == [kind |-> "Ok", entries |-> es]

\* The state before the caller's first call, the caller's query being one of
\* `queries` or its buffer one of `buffers`.
InitWith(queries, buffers) ==
    /\ \/ \E q \in queries :
             /\ input = [kind |-> "query", entries |-> q]
             /\ self = Some(q)
             /\ bytes = <<>>
             /\ pc = "to_sql"
       \/ \E b \in buffers, k \in {"bytes", "sql"} :
             /\ input = [kind |-> k, bytes |-> b]
             /\ self = None
             /\ bytes = b
             /\ pc = "try_from"
    /\ out = None
    /\ returned = None
    /\ calls = 0
    /\ log = <<>>
    /\ position = 0 /\ count = 0 /\ iter = 0 /\ entries = <<>> /\ result = None
    /\ rentries = <<>> /\ stack = <<>> /\ priority = 0 /\ num = 0 /\ len = 0
    /\ labelled = None
    /\ shown = None

Init == InitWith(QueryInputs, BytesInputs)

\* PgTsQuery::to_sql(&self, out)
ToSql ==
    /\ pc = "to_sql"
    /\ out' = Some(to_sql(self[1]))
    /\ IF input.kind = "query"
       THEN /\ bytes' = to_sql(self[1])
            /\ pc' = "try_from"
       ELSE /\ bytes' = bytes
            /\ pc' = "fmt"
    /\ UNCHANGED << input, self, position, count, iter, entries, result, returned,
                    renderVars >>

\* What the caller does with the value try_from returned: a caller that
\* started from a buffer goes on with the decoded query, and from_sql
\* unwraps the value.
Returned(res) ==
    /\ result' = Some(res)
    /\ IF input.kind = "query"
       THEN /\ pc' = "fmt"
            /\ self' = self
       ELSE IF input.kind = "sql"
       THEN /\ pc' = "unwrap"
            /\ self' = self
       ELSE IF res.kind = "Ok"
            THEN /\ pc' = "to_sql"
                 /\ self' = Some(res.entries)
            ELSE /\ pc' = "done"
                 /\ self' = self

\* try_from up to the loop: the cursor, and the count read as a u32.
TryFromBegin ==
    /\ pc = "try_from"
    /\ IF Len(bytes) < 4
       THEN /\ Returned(Fail(UnexpectedEof))
            /\ UNCHANGED << position, count, iter, entries >>
       ELSE /\ count' = U32(bytes[1], bytes[2], bytes[3], bytes[4])
            /\ position' = 4
            /\ iter' = 0
            /\ entries' = <<>>
            /\ pc' = "loop"
            /\ UNCHANGED << self, result >>
    /\ UNCHANGED << input, out, bytes, returned, renderVars >>

\* One pass through `for _ in 0..count`.
TryFromEntry ==
    /\ pc = "loop"
    /\ iter < count
    /\ LET r == DecodeEntry(bytes, position)
       IN  CASE r.kind = "Push" ->
                   /\ entries' = Append(entries, r.entry)
                   /\ position' = r.position
                   /\ iter' = iter + 1
                   /\ UNCHANGED << pc, self, result >>
             [] r.kind = "Skip" ->
                   /\ position' = r.position
                   /\ iter' = iter + 1
                   /\ UNCHANGED << pc, self, result, entries >>
             [] OTHER ->
                   /\ Returned(r)
                   /\ UNCHANGED << position, iter, entries >>
    /\ UNCHANGED << input, out, bytes, count, returned, renderVars >>

\* The loop is over: Ok(PgTsQuery { entries }).
TryFromReturn ==
    /\ pc = "loop"
    /\ iter = count
    /\ Returned(Ok(entries))
    /\ UNCHANGED << input, out, bytes, position, count, iter, entries, returned,
                    renderVars >>

\* from_sql: `raw.try_into().unwrap()` and `Ok(ts_query)`.  The unwrap hands
\* on the query of an Ok and panics on an Err; a panic of try_from passes
\* through from_sql.
from_sql(res) == IF res.kind = "Ok" THEN Ok(res.entries) ELSE Panicked

FromSqlReturn ==
    /\ pc = "unwrap"
    /\ returned' = Some(from_sql(result[1]))
    /\ pc' = "done"
    /\ UNCHANGED << input, self, out, bytes, position, count, iter, entries, result,
                    renderVars >>

\* The query a caller displays between two displays of its own.
OtherQuery == << Operator("Or", None), Lexeme("cat"), Lexeme("dog") >>

\* The calls of Display::fmt a caller makes, in order.
Displays == << "self", "other", "self" >>

\* The entries of the query that the call in progress displays.
DisplayedEntries(n) == IF Displays[n] = "self" THEN self[1] ELSE OtherQuery

\* infix_string with a priority that outlives the call, as a static would.
FmtBeginKeepsPriority ==
    /\ pc = "fmt"
    /\ calls' = calls + 1
    /\ rentries' = DisplayedEntries(calls + 1)
    /\ stack' = <<>>
    /\ len' = Len(DisplayedEntries(calls + 1))
    /\ priority' = priority
    /\ num' = 0
    /\ pc' = "render"
    /\ UNCHANGED << input, self, out, codecVars, labelled, shown, log >>

\* Display::fmt calls infix_string(self.entries.clone()): the locals of
\* infix_string before its loop.
FmtBegin ==
    /\ pc = "fmt"
    /\ calls' = calls + 1
    /\ rentries' = DisplayedEntries(calls + 1)
    /\ stack' = <<>>
    /\ len' = Len(DisplayedEntries(calls + 1))
    /\ priority' = 0
    /\ num' = 0
    /\ pc' = "render"
    /\ UNCHANGED << input, self, out, codecVars, labelled, shown, log >>

\* One pass through `for num in 0..len`: entries.pop() and its match.
RenderStep ==
    /\ pc = "render"
    /\ num < len
    /\ LET entry == rentries[Len(rentries)]
           r     == RenderEntry(entry, stack, priority, num, len)
       IN  /\ stack' = r.stack
           /\ priority' = r.priority
           /\ labelled' = IF entry.type = "Value" /\ ~(entry.prefix > 0)
                          THEN Some([weight |-> entry.weight,
                                     label |-> weight_to_string(entry.weight)])
                          ELSE labelled
    /\ rentries' = pop(rentries)
    /\ num' = num + 1
    /\ UNCHANGED << input, pc, self, out, codecVars, len, shown, calls, log >>

\* stack.join(" "), written by fmt.
FmtReturn ==
    /\ pc = "render"
    /\ num = len
    /\ log' = Append(log, Join(stack, B(" ")))
    /\ shown' = IF Displays[calls] = "self" THEN Some(Join(stack, B(" "))) ELSE shown
    /\ pc' = IF calls < Len(Displays) THEN "fmt" ELSE "done"
    /\ UNCHANGED << input, self, out, codecVars, rentries, stack, priority, num, len,
                    labelled, calls >>

Next ==
    \/ ToSql
    \/ TryFromBegin
    \/ TryFromEntry
    \/ TryFromReturn
    \/ FromSqlReturn
    \/ FmtBegin
    \/ RenderStep
    \/ FmtReturn

Spec == Init /\ [][Next]_vars

\* Every operation is a sequential function that runs to its end once it is
\* called: a step that can be taken is taken.
FairSpec == InitWith(FairQueries, FairBuffers) /\ [][Next]_vars /\ WF_vars(Next)

(***************************************************************************)
(* Properties                                                              *)
(***************************************************************************)
\* The value constraints of the decoder: weight <= 15, at most 2047 text
\* bytes, valid UTF-8, no embedded NUL.
ValidValues(es) ==
    \A i \in 1..Len(es) :
        es[i].type = "Value" =>
            /\ es[i].weight <= 15
            /\ Len(es[i].text) <= 2047
            /\ from_utf8_ok(es[i].text)
            /\ \A j \in 1..Len(es[i].text) : es[i].text[j] # 0

\* The fields the decoder derives: a value's distance is its text length
\* plus 1, and an operator carries a distance exactly when it is a PHRASE.
DerivedFields(es) ==
    \A i \in 1..Len(es) :
        IF es[i].type = "Value"
        THEN es[i].distance = Len(es[i].text) + 1
        ELSE (es[i].distance # None) <=> (es[i].operator = "Phrase")

\* The caller started from a query, and try_from has returned for the bytes
\* to_sql wrote.
EncodedThenDecoded == input.kind = "query" /\ result # None

\* C1 as stated: for every query whose values satisfy the value constraints,
\* with any operator entries and any Value.distance, decoding the encoded
\* bytes succeeds and yields the same query.
C1_RoundTripAnyFields ==
    (EncodedThenDecoded /\ ValidValues(input.entries))
        => result[1] = Ok(input.entries)

\* C1 amended: for every query whose values satisfy the value constraints
\* and whose derived fields are as the decoder sets them (Value.distance =
\* text length + 1; an operator distance present exactly for PHRASE),
\* decoding the encoded bytes succeeds and yields the same query.
C1_RoundTrip ==
    (EncodedThenDecoded /\ ValidValues(input.entries) /\ DerivedFields(input.entries))
        => result[1] = Ok(input.entries)

\* C1 witness: a PHRASE with distance 300 over two values went through
\* to_sql and try_from and came back equal.
C1_Witness ==
    /\ EncodedThenDecoded
    /\ input.entries = << Operator("Phrase", Some(300)), Lexeme("a"), Lexeme("b") >>
    /\ result[1] = Ok(input.entries)

\* A value of 2047 text bytes came back equal as well.
LongestTextRoundTrips ==
    /\ EncodedThenDecoded
    /\ Len(input.entries) = 1 /\ input.entries[1].type = "Value"
    /\ Len(input.entries[1].text) = MaxOperandLen
    /\ result[1] = Ok(input.entries)

\* C2: for every buffer that try_from accepts with no byte left after the
\* declared entries, to_sql of the decoded query writes the same bytes.
C2_ReverseRoundTrip ==
    (/\ input.kind = "bytes"
     /\ result # None /\ result[1].kind = "Ok"
     /\ position = Len(input.bytes)
     /\ out # None)
        => out[1] = input.bytes

\* The caller started from the query q, and Display has written its string.
Displayed(q) == input.kind = "query" /\ input.entries = q /\ shown # None

\* C4 as stated: the entries [cat, rat, AND, fat, OR] render as
\* 'fat' | 'cat' & 'rat'.
C4_PostfixRendersInfix ==
    Displayed(PostfixExample) => shown[1] = B("'fat' | 'cat' & 'rat'")

\* C4 amended: the entries [cat, rat, AND, fat, OR] render as 'rat' 'cat':
\* the OR and the AND are processed before their operands are on the stack,
\* the AND discards 'fat', and the two values left are joined by a space.
C4_PostfixRendersOperands ==
    Displayed(PostfixExample) => shown[1] = B("'rat' 'cat'")

\* C4 witness: the postfix example has been displayed.
C4_Witness == Displayed(PostfixExample) /\ shown[1] = B("'rat' 'cat'")

\* C5 as stated: the entries [bird, NOT] render as !'bird'.
C5_ValueThenNot == Displayed(BirdNot) => shown[1] = B("!'bird'")

\* C5 amended: the entries [NOT, bird] render as !'bird'; the entries
\* [bird, NOT] render as 'bird', the NOT being processed on an empty stack.
C5_NotThenValue ==
    /\ Displayed(NotBird) => shown[1] = B("!'bird'")
    /\ Displayed(BirdNot) => shown[1] = B("'bird'")

\* C5 witness: [bird, NOT] has been displayed without the '!'.
C5_Witness == Displayed(BirdNot) /\ shown[1] = B("'bird'")

\* C6: displaying the decoded 29-byte buffer of the header comment gives
\* 'fat' & 'rat' | 'cat', and the worked example renders as
\* 'lazi' & ('dog' | 'cat') | !'bird' & 'eleph'.
C6_DocumentedExamples ==
    /\ (input.kind = "bytes" /\ input.bytes = DocBuffer /\ shown # None)
          => shown[1] = B("'fat' & 'rat' | 'cat'")
    /\ Displayed(WorkedExample)
          => shown[1] = B("'lazi' & ('dog' | 'cat') | !'bird' & 'eleph'")

RECURSIVE DecimalValue(_)
\* The number written by a string of decimal digits.
DecimalValue(ds) ==
    IF ds = <<>> THEN 0
    ELSE DecimalValue(SubSeq(ds, 1, Len(ds) - 1)) * 10 + (ds[Len(ds)] - 48)

\* Whether s is the decimal numeral of n: digits only, no leading zero,
\* a '-' in front exactly for a negative number.
IsDecimalOf(s, n) ==
    LET ds == IF s # <<>> /\ s[1] = 45 THEN Tail(s) ELSE s
    IN  /\ ds # <<>>
        /\ \A i \in 1..Len(ds) : ds[i] \in 48..57
        /\ Len(ds) > 1 => ds[1] # 48
        /\ (s[1] = 45) <=> (n < 0)
        /\ DecimalValue(ds) = (IF n < 0 THEN -n ELSE n)

\* The renderer is about to process a PHRASE with two strings on the stack.
PhraseCombines ==
    /\ pc = "render" /\ num < len
    /\ rentries[Len(rentries)].type = "Operator"
    /\ rentries[Len(rentries)].operator = "Phrase"
    /\ Len(stack) >= 2

\* C7: a PHRASE is combined as left, connective, right, separated by single
\* spaces; the connective is <-> exactly when the distance is absent or 1
\* and otherwise <N> with N the decimal distance; the documented 7-entry
\* buffer renders as 'quick' <2> 'fox' & 'lazi' <3> 'dog'.
C7_PhraseConnective ==
    /\ [][PhraseCombines =>
            LET d      == rentries[Len(rentries)].distance
                right  == stack[Len(stack)]
                left   == stack[Len(stack) - 1]
                pushed == stack'[Len(stack')]
                conn   == SubSeq(pushed, Len(left) + 2, Len(pushed) - Len(right) - 1)
            IN  /\ Len(stack') = Len(stack) - 1
                /\ pushed = left \o B(" ") \o conn \o B(" ") \o right
                /\ (conn = B("<->")) <=> (d = None \/ d = Some(1))
                /\ conn # B("<->") =>
                      /\ conn[1] = 60 /\ conn[Len(conn)] = 62
                      /\ IsDecimalOf(SubSeq(conn, 2, Len(conn) - 1), d[1])]_vars
    /\ []((input.kind = "bytes" /\ input.bytes = DocPhraseBuffer /\ shown # None)
            => shown[1] = B("'quick' <2> 'fox' & 'lazi' <3> 'dog'"))

\* C7 witness: a PHRASE with the negative distance -32768 has been rendered.
C7_Witness ==
    /\ Displayed(<< Operator("Phrase", Some(-32768)), Lexeme("a"), Lexeme("b") >>)
    /\ shown[1] = B("'b' <-32768> 'a'")

\* The label of a weight, read off its bits: A = 8, B = 4, C = 2, D = 1.
BitLabel(w) ==
    (IF (w \div 8) % 2 = 1 THEN B("A") ELSE <<>>)
    \o (IF (w \div 4) % 2 = 1 THEN B("B") ELSE <<>>)
    \o (IF (w \div 2) % 2 = 1 THEN B("C") ELSE <<>>)
    \o (IF w % 2 = 1 THEN B("D") ELSE <<>>)

\* The renderer is about to process a Value entry.
ValueRendered == pc = "render" /\ num < len /\ rentries[Len(rentries)].type = "Value"

\* C8: a Value is pushed as '<text>':* when its prefix flag is nonzero,
\* otherwise as '<text>':<label> when its weight has a label, otherwise as
\* '<text>'.
C8_ValueForms ==
    [][ValueRendered =>
          LET val    == rentries[Len(rentries)]
              quoted == << 39 >> \o val.text \o << 39 >>
          IN  stack' = Append(stack,
                  IF val.prefix # 0 THEN quoted \o B(":*")
                  ELSE IF val.weight \in 1..15 THEN quoted \o B(":") \o BitLabel(val.weight)
                  ELSE quoted)]_vars

\* C8 witness: a value with prefix flag 1 and weight 12 was displayed as 'a':*.
C8_Witness ==
    /\ Displayed(<< Value(12, B("a"), 1, 2) >>)
    /\ shown[1] = B("'a':*")

\* weight_to_string is defined on every byte.
WeightLabelTotal ==
    \A w \in Byte : weight_to_string(w) = None \/ Len(weight_to_string(w)) = 1

\* The labels of the weights 1..15 are pairwise distinct.
WeightLabelsDistinct ==
    \A v, w \in 1..15 : v # w => weight_to_string(v) # weight_to_string(w)

\* C9: weight_to_string returns, for every weight 1..15, the labels of its
\* bits in the order A, B, C, D and, for 0 and every weight above 15, no
\* label; the labels of 1..15 are pairwise distinct.
C9_WeightLabels ==
    /\ labelled # None =>
          LET w == labelled[1].weight
              l == labelled[1].label
          IN  /\ w \in 1..15 => l = Some(BitLabel(w))
              /\ (w = 0 \/ w > 15) => l = None
    /\ WeightLabelTotal
    /\ WeightLabelsDistinct

\* C9 witness: weight_to_string was called with 12 and returned AB.
C9_Witness == labelled = Some([weight |-> 12, label |-> Some(B("AB"))])

\* try_from is about to read an operator entry whose code byte is present
\* and is not 1, 2, 3 or 4 as a signed byte.
InvalidOperatorNext ==
    /\ pc = "loop" /\ iter < count
    /\ position + 2 <= Len(bytes)
    /\ bytes[position + 1] = 2
    /\ I8(bytes[position + 2]) \notin 1..4

\* The codes 1..4 and the four operator kinds correspond one to one, and no
\* other signed byte is the code of a kind.
OperatorCodesBijective ==
    /\ \A k \in Operators : OperatorsTryFrom(OperatorsToI8(k)) = Some(k)
    /\ \A c \in 1..4 : OperatorsToI8(OperatorsTryFrom(c)[1]) = c
    /\ \A c \in -128..127 : c \notin 1..4 => OperatorsTryFrom(c) = None

\* C10: the codes 1..4 and the four operator kinds correspond one to one
\* (kind to code to kind, and code to kind to code); an operator decoded from
\* encoded bytes has the kind that was encoded; and an operator entry whose
\* code is outside 1..4 makes try_from return an error and no query.
C10_OperatorCodes ==
    /\ [](/\ OperatorCodesBijective
          /\ (input.kind = "query" /\ ValidValues(input.entries)) =>
                \A k \in 1..Len(entries) :
                    input.entries[k].type = "Operator" =>
                        /\ entries[k].type = "Operator"
                        /\ entries[k].operator = input.entries[k].operator)
    /\ [][InvalidOperatorNext =>
            /\ result' = Some(Fail("Invalid type"))
            /\ self' = None
            /\ pc' \in {"done", "unwrap"}]_vars

\* C10 witness: a buffer with the operator code 255 (-1) was rejected.
C10_Witness ==
    /\ input.kind = "bytes"
    /\ input.bytes = << 0, 0, 0, 1, 2, 255, 1 >>
    /\ result = Some(Fail("Invalid type"))

(***************************************************************************)
(* Expression trees: the tree a stack evaluation builds, and the tree an   *)
(* infix string denotes when read with NOT > PHRASE > AND > OR.            *)
(***************************************************************************)
Leaf(s)            == [k |-> "leaf", s |-> s, op |-> <<>>, sub |-> <<>>]
NotNode(t)         == [k |-> "not", s |-> <<>>, op |-> B("!"), sub |-> << t >>]
BinNode(op, l, r)  == [k |-> "bin", s |-> <<>>, op |-> op, sub |-> << l, r >>]
NoTree             == [k |-> "none", s |-> <<>>, op |-> <<>>, sub |-> <<>>]

\* The connective an operator entry stands for.
Connective(entry) ==
    CASE entry.operator = "Not"    -> B("!")
      [] entry.operator = "And"    -> B("&")
      [] entry.operator = "Or"     -> B("|")
      [] entry.operator = "Phrase" -> PhraseOpStr(entry.distance)

RECURSIVE EvalTrees(_, _)
\* The stack of trees left by consuming es from last to first: a value is
\* pushed as a leaf, NOT takes the top tree, AND/OR/PHRASE take the top as
\* right and the next as left.  << NoTree >> marks an underflow.
EvalTrees(es, st) ==
    IF es = <<>> THEN st
    ELSE LET e    == es[Len(es)]
             rest == pop(es)
         IN  IF e.type = "Value" THEN EvalTrees(rest, Append(st, Leaf(FormatValue(e))))
             ELSE IF e.operator = "Not"
                  THEN IF Len(st) < 1 THEN << NoTree >>
                       ELSE EvalTrees(rest, Append(pop(st), NotNode(st[Len(st)])))
             ELSE IF Len(st) < 2 THEN << NoTree >>
                  ELSE EvalTrees(rest,
                           Append(PopTwo(st),
                                  BinNode(Connective(e), st[Len(st) - 1], st[Len(st)])))

\* The entries evaluate without underflow and leave exactly one tree.
WellFormed(es) ==
    LET st == EvalTrees(es, <<>>) IN Len(st) = 1 /\ st[1] # NoTree

\* The tree built by the stack evaluation of well-formed entries.
TreeOf(es) == EvalTrees(es, <<>>)[1]

\* The first index j >= i with s[j] = c, or Len(s) + 1.
IndexFrom(s, c, i) ==
    LET hits == {j \in i..Len(s) : s[j] = c}
    IN  IF hits = {} THEN Len(s) + 1 ELSE CHOOSE j \in hits : \A h \in hits : j <= h

\* The last index of the value token whose closing quote is at j: a ':'
\* and the label characters A..D and '*' after it belong to the token.
ValueEnd(s, j) ==
    IF j + 1 <= Len(s) /\ s[j + 1] = 58
    THEN LET others == {m \in (j + 2)..Len(s) : s[m] \notin {42, 65, 66, 67, 68}}
         IN  IF others = {} THEN Len(s)
             ELSE (CHOOSE m \in others : \A o \in others : m <= o) - 1
    ELSE j

RECURSIVE Tokens(_, _)
\* The tokens of an infix string from index i on: quoted values with their
\* suffix, <...> connectives, and the single characters ( ) ! & |.
Tokens(s, i) ==
    IF i > Len(s) THEN <<>>
    ELSE CASE s[i] = 32 -> Tokens(s, i + 1)
           [] s[i] = 39 ->
                 LET e == ValueEnd(s, IndexFrom(s, 39, i + 1))
                 IN  << SubSeq(s, i, e) >> \o Tokens(s, e + 1)
           [] s[i] = 60 ->
                 LET e == IndexFrom(s, 62, i + 1)
                 IN  << SubSeq(s, i, e) >> \o Tokens(s, e + 1)
           [] OTHER -> << << s[i] >> >> \o Tokens(s, i + 1)

\* A parse result: the tree read, and the index of the next token.
Parsed(t, i) == [tree |-> t, next |-> i]

IsTok(ts, i, tok) == i <= Len(ts) /\ ts[i] = tok
IsPhraseTok(ts, i) == i <= Len(ts) /\ ts[i][1] = 60
IsValueTok(ts, i) == i <= Len(ts) /\ ts[i][1] = 39

RECURSIVE ParseOr(_, _), ParseOrRest(_, _), ParseAnd(_, _), ParseAndRest(_, _),
          ParsePhrase(_, _), ParsePhraseRest(_, _), ParseNot(_, _)

\* or := and ( '|' and )*
ParseOr(ts, i) == ParseOrRest(ts, ParseAnd(ts, i))
ParseOrRest(ts, l) ==
    IF l.tree # NoTree /\ IsTok(ts, l.next, B("|"))
    THEN LET r == ParseAnd(ts, l.next + 1)
         IN  IF r.tree = NoTree THEN r
             ELSE ParseOrRest(ts, Parsed(BinNode(B("|"), l.tree, r.tree), r.next))
    ELSE l

\* and := phrase ( '&' phrase )*
ParseAnd(ts, i) == ParseAndRest(ts, ParsePhrase(ts, i))
ParseAndRest(ts, l) ==
    IF l.tree # NoTree /\ IsTok(ts, l.next, B("&"))
    THEN LET r == ParsePhrase(ts, l.next + 1)
         IN  IF r.tree = NoTree THEN r
             ELSE ParseAndRest(ts, Parsed(BinNode(B("&"), l.tree, r.tree), r.next))
    ELSE l

\* phrase := not ( '<..>' not )*
ParsePhrase(ts, i) == ParsePhraseRest(ts, ParseNot(ts, i))
ParsePhraseRest(ts, l) ==
    IF l.tree # NoTree /\ IsPhraseTok(ts, l.next)
    THEN LET r == ParseNot(ts, l.next + 1)
         IN  IF r.tree = NoTree THEN r
             ELSE ParsePhraseRest(ts, Parsed(BinNode(ts[l.next], l.tree, r.tree), r.next))
    ELSE l

\* not := '!' not | '(' or ')' | value
ParseNot(ts, i) ==
    IF IsTok(ts, i, B("!"))
    THEN LET a == ParseNot(ts, i + 1)
         IN  IF a.tree = NoTree THEN a ELSE Parsed(NotNode(a.tree), a.next)
    ELSE IF IsTok(ts, i, B("("))
    THEN LET a == ParseOr(ts, i + 1)
         IN  IF a.tree # NoTree /\ IsTok(ts, a.next, B(")"))
             THEN Parsed(a.tree, a.next + 1)
             ELSE Parsed(NoTree, i)
    ELSE IF IsValueTok(ts, i) THEN Parsed(Leaf(ts[i]), i + 1)
    ELSE Parsed(NoTree, i)

\* The tree an infix string denotes, or NoTree when it is not an expression.
ParseInfix(s) ==
    LET ts == Tokens(s, 1)
        p  == ParseOr(ts, 1)
    IN  IF p.tree # NoTree /\ p.next = Len(ts) + 1 THEN p.tree ELSE NoTree

\* C3: for every entry sequence that the renderer evaluates without underflow
\* to exactly one string, the rendered string, read with binding strength
\* NOT > PHRASE > AND > OR and parentheses, denotes the tree built by the
\* stack evaluation.
C3_RenderedTreeIsEvaluatedTree ==
    (shown # None /\ WellFormed(self[1])) => ParseInfix(shown[1]) = TreeOf(self[1])

(***************************************************************************)
(* Decode errors                                                           *)
(***************************************************************************)
\* try_from is about to make a pass of its loop.
AtEntry == pc = "loop" /\ iter < count

\* The number of bytes the reader has not consumed.
Remaining == Len(bytes) - position

\* try_from is about to read a value entry whose weight byte is present.
AtValue == AtEntry /\ Remaining >= 2 /\ bytes[position + 1] = 1

\* C11: a value entry whose weight byte is above 15 makes try_from fail
\* with the invalid-weight error, whatever bytes follow the weight.
C11_InvalidWeight ==
    [][(AtValue /\ bytes[position + 2] > 15)
          => result' = Some(Fail("Invalid tsquery: invalid weight"))]_vars

\* The bytes from index i on hold no NUL.
NoNulFrom(i) == \A j \in i .. Len(bytes) : bytes[j] # 0

\* try_from is about to read a field that the end of the buffer cuts short:
\* the count, an entry's discriminator, an operator's code, a phrase
\* distance, a value's weight or prefix, a value's text.
CutInCount == pc = "try_from" /\ Len(bytes) < 4
CutBeforeEntry == AtEntry /\ Remaining = 0
CutInOperator == AtEntry /\ Remaining = 1 /\ bytes[position + 1] = 2
CutInDistance ==
    /\ AtEntry /\ Remaining \in {2, 3}
    /\ bytes[position + 1] = 2 /\ bytes[position + 2] = 4
CutInValueHead == AtEntry /\ Remaining \in {1, 2} /\ bytes[position + 1] = 1
CutInText ==
    AtEntry /\ Remaining >= 3 /\ bytes[position + 1] = 1 /\ NoNulFrom(position + 4)

\* The errors that report a buffer that ended too early: the reader's end of
\* file, and for a phrase distance of which one byte is left, the check on
\* the operator's position.
TruncatedErrors ==
    { Fail(UnexpectedEof), Fail("Invalid tsquery: invalid pointer to right operand") }

\* C12: a buffer that ends in the middle of a field makes try_from fail with
\* a truncated-input error: in the count, before a declared entry, in an
\* operator's code or distance, in a value's weight, prefix or text.
C12_TruncatedInput ==
    [][(\/ CutInCount \/ CutBeforeEntry \/ CutInOperator
        \/ CutInDistance \/ CutInValueHead \/ CutInText)
          => (result' # None /\ result'[1] \in TruncatedErrors)]_vars

\* try_from is about to read an operator whose code is the last byte.
CodeIsLastByte ==
    /\ AtEntry /\ Remaining = 2 /\ bytes[position + 1] = 2
    /\ OperatorsTryFrom(I8(bytes[position + 2])) # None

\* C13: an operator entry whose code byte is the very last byte of the
\* buffer makes try_from fail with the trailing-operator error.
C13_TrailingOperator ==
    [][CodeIsLastByte
          => result' = Some(Fail("Invalid tsquery: invalid pointer to right operand"))]_vars

\* The passes of try_from's loop from the reader's position pos, i passes
\* being left and es the entries pushed so far.
RECURSIVE TryFromLoop(_, _, _, _)
TryFromLoop(buf, pos, i, es) ==
    IF i = 0 THEN Ok(es)
    ELSE LET r == DecodeEntry(buf, pos)
         IN  CASE r.kind = "Push" ->
                      TryFromLoop(buf, r.position, i - 1, Append(es, r.entry))
               [] r.kind = "Skip" -> TryFromLoop(buf, r.position, i - 1, es)
               [] OTHER -> r

\* try_from as one function of the buffer.
try_from(buf) ==
    IF Len(buf) < 4 THEN Fail(UnexpectedEof)
    ELSE TryFromLoop(buf, 4, U32(buf[1], buf[2], buf[3], buf[4]), <<>>)

\* The longest run of bytes appended to a buffer.
MaxTail == 2

\* The runs of bytes appended to a buffer.
Tails == SeqsUpTo({0, 1, 2, 97}, MaxTail)

\* try_from consumed the whole buffer and returned a query.
DecodedWhole ==
    /\ input.kind = "bytes" /\ result # None /\ result[1].kind = "Ok"
    /\ position = Len(bytes)

\* C14: bytes after the declared entries are ignored: when try_from returns
\* a query for a buffer and leaves nothing over, it returns the same query
\* for the buffer followed by any bytes.
C14_TrailingBytesIgnored ==
    DecodedWhole => \A t \in Tails : try_from(bytes \o t) = result[1]

\* try_from is about to read a value entry whose text ends with a NUL.
AtTerminatedValue ==
    /\ AtEntry /\ Remaining >= 4 /\ bytes[position + 1] = 1
    /\ \E j \in position + 4 .. Len(bytes) : bytes[j] = 0

\* The index of the NUL that ends the text of that value.
NulIndex ==
    CHOOSE j \in position + 4 .. Len(bytes) :
        bytes[j] = 0 /\ \A k \in position + 4 .. j - 1 : bytes[k] # 0

\* The text of that value and its length in bytes.
TextRead == SubSeq(bytes, position + 4, NulIndex - 1)
TextLen == NulIndex - (position + 4)

\* try_from is about to read a value entry that is valid but for the length
\* of its text.
AtValueOfAnyLength ==
    AtTerminatedValue /\ bytes[position + 2] <= 15 /\ from_utf8_ok(TextRead)

\* C15: a value whose text is longer than 2047 bytes makes try_from fail
\* with the operand-too-long error, at every such length; a text of exactly
\* 2047 bytes is accepted.
C15_OperandTooLong ==
    [][AtValueOfAnyLength
          => /\ TextLen > 2047 =>
                  result' = Some(Fail("Invalid tsquery: operand too long"))
             /\ TextLen = 2047 =>
                  /\ result' = None
                  /\ entries' = Append(entries, Value(bytes[position + 2], TextRead,
                                                      bytes[position + 3], 2048))]_vars

\* try_from ended without a query.
DecodeFailed == result # None /\ result[1].kind # "Ok"

\* C16: every decode failure comes out as an error value and no partial
\* query: try_from returns an Err that carries no entries, and from_sql
\* returns an Err instead of panicking.
C16_FailuresAreErrors ==
    /\ DecodeFailed =>
          /\ result[1].kind = "Err"
          /\ DOMAIN result[1] = {"kind", "err"}
          /\ self = None
    /\ (DecodeFailed /\ returned # None) => returned[1].kind = "Err"

(***************************************************************************)
(* Rendering                                                               *)
(***************************************************************************)
\* The length of the strings st[1..i] with one byte after each.
RECURSIVE Width(_, _)
Width(st, i) == IF i = 0 THEN 0 ELSE Width(st, i - 1) + Len(st[i]) + 1

\* str is the strings of st in order with exactly one space between two
\* neighbours and nothing else.
IsJoined(st, str) ==
    /\ Len(str) = IF st = <<>> THEN 0 ELSE Width(st, Len(st)) - 1
    /\ \A i \in 1..Len(st) :
          /\ SubSeq(str, Width(st, i - 1) + 1, Width(st, i) - 1) = st[i]
          /\ i < Len(st) => str[Width(st, i)] = 32

\* infix_string has taken num steps and has the first len - num entries of
\* the displayed query left, the later ones having been consumed.
RenderProgress ==
    pc = "render" =>
        /\ len = Len(DisplayedEntries(calls))
        /\ num \in 0..len
        /\ rentries = SubSeq(DisplayedEntries(calls), 1, len - num)

\* A step of infix_string consumes the last entry left; the string is
\* returned after exactly len steps and is the stack joined by spaces.
RenderStepsNext ==
    /\ (pc = "render" /\ pc' = "render") =>
          /\ num < len /\ num' = num + 1
          /\ rentries' = SubSeq(rentries, 1, Len(rentries) - 1)
    /\ log' # log =>
          /\ pc = "render" /\ num = len /\ rentries = <<>>
          /\ Len(log') = Len(log) + 1
          /\ IsJoined(stack, log'[Len(log')])

\* C17: infix_string never fails and always ends: whatever the entries, it
\* consumes each entry exactly once, the last stored first, takes exactly
\* len steps (an operator with too few operands included) and then returns
\* the strings of the stack joined by single spaces.
C17_RenderTotal ==
    /\ [](RenderProgress /\ (pc = "render" => ENABLED (RenderStep \/ FmtReturn)))
    /\ [][RenderStepsNext]_vars
    /\ \A k \in 1..Len(Displays) :
          (pc = "fmt" /\ calls = k - 1) ~> (Len(log) = k)

\* C17 witness: a query whose operators had too few operands was displayed,
\* with more than one string left on the stack.
C17_Witness ==
    /\ input.kind = "query" /\ input.entries = PostfixExample
    /\ pc = "done" /\ Len(log) = Len(Displays) /\ Len(stack) = 2

\* The height of a stack of height d after the entries es[i..Len(es)] are
\* evaluated from left to right: a value pushes, NOT replaces one operand,
\* AND, OR and PHRASE replace two by one; -1 when an operator finds too few.
RECURSIVE Height(_, _, _)
Height(es, i, d) ==
    IF i > Len(es) THEN d
    ELSE IF es[i].type = "Value" THEN Height(es, i + 1, d + 1)
    ELSE IF es[i].operator = "Not"
         THEN IF d >= 1 THEN Height(es, i + 1, d) ELSE -1
         ELSE IF d >= 2 THEN Height(es, i + 1, d - 1) ELSE -1

\* es from its last entry to its first.
Reverse(es) == [i \in 1..Len(es) |-> es[Len(es) + 1 - i]]

\* The evaluation of es in stored order never lacks an operand and leaves
\* one value; the same for the evaluation from the last entry to the first.
WellFormedLeftToRight(es) == Height(es, 1, 0) = 1
WellFormedLastToFirst(es) == Height(Reverse(es), 1, 0) = 1

\* The bytes t occur in str.
Contains(str, t) ==
    \E i \in 0 .. Len(str) - Len(t) : SubSeq(str, i + 1, i + Len(t)) = t

\* Display::fmt returns for the caller's query with one string on the
\* stack, and what it writes holds the text of every value of the query.
OneExpressionNext ==
    /\ Len(stack) = 1
    /\ \A k \in 1..Len(self[1]) :
          self[1][k].type = "Value" => Contains(log'[Len(log')], self[1][k].text)

\* Display::fmt returns for the caller's query.
SelfDisplayedNext == log' # log /\ Displays[calls] = "self"

\* C18 as stated: a query that is well formed when evaluated from its first
\* entry to its last is rendered as one expression with every value's text.
C18_LeftToRightOneExpression ==
    [][(SelfDisplayedNext /\ WellFormedLeftToRight(self[1])) => OneExpressionNext]_vars

\* C18: a query that is well formed when evaluated from its last entry to
\* its first (values push, NOT pops one, AND, OR and PHRASE pop two, no
\* operator lacks an operand, one value is left) is rendered with exactly
\* one string on the stack, and the output holds every value's text.
C18_OneExpression ==
    [][(SelfDisplayedNext /\ WellFormedLastToFirst(self[1])) => OneExpressionNext]_vars

\* C18 witness: the worked example has been rendered to the end with one
\* string on the stack.
C18_Witness ==
    /\ input.kind = "query" /\ input.entries = WorkedExample
    /\ WellFormedLastToFirst(self[1])
    /\ pc = "render" /\ calls = 1 /\ num = len /\ Len(stack) = 1

\* A call of Display::fmt is in progress.
Displaying == pc \in {"fmt", "render"}

\* What the other query renders as.
OtherShown == B("'dog' | 'cat'")

\* Calls of Display::fmt for the same query wrote the same string, and the
\* call for the other query wrote what that query renders as by itself.
SameOutputs ==
    /\ \A i, j \in 1..Len(log) : Displays[i] = Displays[j] => log[i] = log[j]
    /\ \A i \in 1..Len(log) : Displays[i] = "other" => log[i] = OtherShown

\* C19: rendering reads the query and keeps nothing between calls: a call
\* of Display::fmt leaves the entries of the query as they were, every call
\* starts with priority 0 and an empty stack, and the same query displayed
\* again, another query having been displayed in between, gives the same
\* string.
C19_RenderStateless ==
    /\ [](SameOutputs)
    /\ [][/\ Displaying => (self' = self /\ input' = input)
          /\ pc = "fmt" => (priority' = 0 /\ stack' = <<>> /\ num' = 0)]_vars

\* C19 witness: the worked example has been displayed, then the other
\* query, then the worked example again.
C19_Witness ==
    /\ input.kind = "query" /\ input.entries = WorkedExample
    /\ self = Some(WorkedExample)
    /\ pc = "done" /\ Len(log) = 3 /\ log[1] = log[3] /\ log[1] # log[2]

\* infix_string is about to process an AND or an OR with two strings on
\* the stack.
AtAndOr ==
    /\ pc = "render" /\ num < len
    /\ rentries[Len(rentries)].type = "Operator"
    /\ rentries[Len(rentries)].operator \in {"And", "Or"}
    /\ Len(stack) >= 2

\* The tier of that operator, and the operator between two spaces.
Tier == IF rentries[Len(rentries)].operator = "And" THEN 2 ELSE 3
Infix == IF rentries[Len(rentries)].operator = "And" THEN << 32, 38, 32 >>
                                                     ELSE << 32, 124, 32 >>

\* left op right: right is the first string popped (the top of the stack),
\* left the second.
Combined == stack[Len(stack) - 1] \o Infix \o stack[Len(stack)]

\* That operator is the first stored entry, the last one processed.
FinalEntry == Len(rentries) = 1

PhraseCombined ==
    stack[Len(stack) - 1] \o << 32 >> \o PhraseOpStr(rentries[Len(rentries)].distance)
                          \o << 32 >> \o stack[Len(stack)]

\* C21 as stated: a PHRASE that finds two strings is wrapped in parentheses
\* exactly when 4 is above the running priority and the entry is not the
\* final one processed; the priority is 4 afterwards.
C21_PhraseParenthesizedAsAndOr ==
    [][PhraseCombines =>
          /\ Len(stack') = Len(stack) - 1
          /\ stack'[Len(stack')] = IF 4 > priority /\ ~FinalEntry
                                   THEN << 40 >> \o PhraseCombined \o << 41 >>
                                   ELSE PhraseCombined
          /\ priority' = 4]_vars

\* C21: a PHRASE that finds two strings replaces them by left, connective,
\* right and is never wrapped in parentheses, whatever the running priority
\* and whether or not the entry is the final one; the priority is 4
\* afterwards.
C21_PhraseNeverParenthesized ==
    [][PhraseCombines =>
          /\ Len(stack') = Len(stack) - 1
          /\ SubSeq(stack', 1, Len(stack) - 2) = SubSeq(stack, 1, Len(stack) - 2)
          /\ stack'[Len(stack')] = PhraseCombined
          /\ priority' = 4]_vars

\* C21 witness: a PHRASE that is not the final entry was combined at
\* priority 0 and its string was pushed without parentheses.
C21_Witness ==
    /\ input.kind = "bytes" /\ input.bytes = DocPhraseBuffer
    /\ pc = "render" /\ calls = 1 /\ num = 3 /\ priority = 4
    /\ stack = << B("'quick' <2> 'fox'") >>

(***************************************************************************)
(* The tree printer                                                        *)
(***************************************************************************)
\* The precedence of a node: by the tiers of the renderer (NOT 1, AND 2,
\* OR 3, PHRASE 4) or by binding strength (OR 1, AND 2, PHRASE 3, NOT 4).
\* A leaf is never parenthesized.
Precedence(t, order) ==
    CASE t.k = "leaf"  -> 5
      [] t.op[1] = 33  -> IF order = "tier" THEN 1 ELSE 4
      [] t.op[1] = 38  -> 2
      [] t.op[1] = 124 -> IF order = "tier" THEN 3 ELSE 1
      [] OTHER         -> IF order = "tier" THEN 4 ELSE 3

\* The tree printed recursively, a child being parenthesized exactly when
\* its precedence is lower than its parent's.
RECURSIVE PrintTree(_, _)
PrintChild(c, t, order) ==
    IF Precedence(c, order) < Precedence(t, order)
    THEN << 40 >> \o PrintTree(c, order) \o << 41 >>
    ELSE PrintTree(c, order)

PrintTree(t, order) ==
    CASE t.k = "leaf" -> t.s
      [] t.k = "not"  -> t.op \o PrintChild(t.sub[1], t, order)
      [] OTHER        -> PrintChild(t.sub[1], t, order) \o << 32 >> \o t.op \o << 32 >>
                            \o PrintChild(t.sub[2], t, order)

\* C22: for every entry sequence that the renderer evaluates without
\* underflow to exactly one string, the output is the string of the tree
\* printer for the tree of the same stack evaluation, precedence being read
\* as the renderer's tiers or as binding strength.
C22_RendererIsTreePrinter ==
    (shown # None /\ WellFormed(self[1])) =>
        \/ shown[1] = PrintTree(TreeOf(self[1]), "tier")
        \/ shown[1] = PrintTree(TreeOf(self[1]), "binding")

(***************************************************************************)
(* The decoder's entry loop                                                *)
(***************************************************************************)
\* try_from is about to read a discriminator that is neither 1 nor 2.
AtUnknownEntry == AtEntry /\ Remaining >= 1 /\ bytes[position + 1] \notin {1, 2}

\* The passes made so far that added no entry.
Skipped == iter - Len(entries)

\* C23: a discriminator other than 1 or 2 is skipped: no error, one byte
\* and one of the declared passes consumed, no entry added; every other
\* pass that does not fail appends one entry after those already decoded;
\* so a successful decode returns the declared count less the skipped
\* discriminators, in buffer order, and never more than the count.
C23_UnknownEntrySkipped ==
    /\ [][/\ AtUnknownEntry =>
               /\ result' = None /\ pc' = "loop"
               /\ position' = position + 1
               /\ iter' = iter + 1
               /\ entries' = entries
          /\ (AtEntry /\ ~AtUnknownEntry /\ pc' = "loop") =>
               /\ iter' = iter + 1
               /\ Len(entries') = Len(entries) + 1
               /\ SubSeq(entries', 1, Len(entries)) = entries]_vars
    /\ [](/\ pc = "loop" => (iter <= count /\ Skipped \in 0..iter)
          /\ (input.kind # "query" /\ result # None /\ result[1].kind = "Ok") =>
               /\ iter = count
               /\ result[1].entries = entries
               /\ Len(entries) = count - Skipped
               /\ Len(entries) <= count)

\* C23 witness: of two declared entries the first had the discriminator 97
\* and the decode returned the one operator that followed.
C23_Witness ==
    /\ input.kind = "bytes" /\ input.bytes = << 0, 0, 0, 2, 97, 2, 1 >>
    /\ result = Some(Ok(<< Operator("Not", None) >>))

\* try_from is about to read an operator entry whose code is valid.
AtOperator ==
    /\ AtEntry /\ Remaining >= 2 /\ bytes[position + 1] = 2
    /\ OperatorsTryFrom(I8(bytes[position + 2])) # None

\* The bytes left once the discriminator and the code have been read.
LeftAfterCode == Remaining - 2

\* The error of the trailing-operator check.
TrailingOperator == Fail("Invalid tsquery: invalid pointer to right operand")

AtOperatorOf(kinds) ==
    /\ pc = "render" /\ num < len
    /\ rentries[Len(rentries)].type = "Operator"
    /\ rentries[Len(rentries)].operator \in kinds

\* An AND that found only the string of the value a.
LoneOperand == << Operator("And", None), Lexeme("a") >>

\* C25: a NOT on an empty stack leaves the stack and the priority as they
\* were; so does an AND, OR or PHRASE on an empty stack; an AND, OR or
\* PHRASE that finds exactly one string removes it, pushes nothing and
\* leaves the priority as it was, so that the operand already rendered is
\* absent from the output.
C25_Underflow ==
    /\ [][/\ (AtOperatorOf({"Not"}) /\ stack = <<>>) =>
                (stack' = <<>> /\ priority' = priority)
          /\ (AtOperatorOf({"And", "Or", "Phrase"}) /\ Len(stack) <= 1) =>
                (stack' = <<>> /\ priority' = priority)]_vars
    /\ [](Displayed(LoneOperand) => shown[1] = <<>>)

\* C25 witness: the AND that found only 'a' has been processed: the stack
\* is empty and the priority is still 0.
C25_Witness ==
    /\ input.kind = "query" /\ input.entries = LoneOperand
    /\ pc = "render" /\ calls = 1 /\ num = 2 /\ stack = <<>> /\ priority = 0

(***************************************************************************)
(* Decoded queries                                                         *)
(***************************************************************************)
\* The entry is a value or an operator as a successful decode returns them.
DecodedEntryOk(e) ==
    IF e.type = "Value"
    THEN /\ e.weight \in 0..15
         /\ Len(e.text) <= 2047
         /\ \A i \in 1..Len(e.text) : e.text[i] # 0
         /\ e.distance = Len(e.text) + 1
    ELSE (e.distance # None) <=> (e.operator = "Phrase")

\* C26: in every query that try_from returns, each value has a weight of at
\* most 15, a text of at most 2047 bytes without a NUL and a distance equal
\* to the length of its text plus 1, and each operator has a distance
\* exactly when it is a PHRASE.
C26_DecodedQuery ==
    (result # None /\ result[1].kind = "Ok") =>
        \A k \in 1..Len(result[1].entries) : DecodedEntryOk(result[1].entries[k])

\* C26 witness: the documented buffer of two weighted values and an AND was
\* decoded.
C26_Witness ==
    /\ input.kind = "bytes" /\ input.bytes = DocWeightBuffer
    /\ result # None /\ result[1].kind = "Ok"
    /\ \E k \in 1..Len(result[1].entries) :
          /\ result[1].entries[k].type = "Value"
          /\ result[1].entries[k].weight > 0

(***************************************************************************)
(* The order of the operands                                               *)
(***************************************************************************)
\* The value entries of es, in order.
ValuesOf(es) == SelectSeq(es, LAMBDA e : e.type = "Value")

\* The quoted values of an infix string with their suffixes, from left to
\* right.
ValueTokens(str) == SelectSeq(Tokens(str, 1), LAMBDA t : t[1] = 39)

\* The values of es as rendered, from the last stored to the first.
ReversedValues(es) ==
    LET vs == ValuesOf(es)
    IN  [i \in 1..Len(vs) |-> FormatValue(vs[Len(vs) + 1 - i])]

\* No text of es holds a quote, so that a quote in the output delimits a
\* value.
PlainTexts(es) ==
    \A k \in 1..Len(es) :
        es[k].type = "Value" => \A i \in 1..Len(es[k].text) : es[k].text[i] # 39

\* No operator of es lacks an operand when es is evaluated from its last
\* entry to its first.
NoUnderflow(es) == Height(Reverse(es), 1, 0) >= 0

\* The entries that the call of infix_string in progress has processed.
Processed == SubSeq(DisplayedEntries(calls), len - num + 1, len)

\* C27: when no operator lacks an operand, the values appear in the output
\* from left to right in the reverse of their stored order, the last stored
\* value leftmost, each exactly once; and at every step the stack holds at
\* most as many strings as values have been processed.
C27_OperandOrder ==
    /\ [][(SelfDisplayedNext /\ NoUnderflow(self[1]) /\ PlainTexts(self[1])) =>
             ValueTokens(log'[Len(log')]) = ReversedValues(self[1])]_vars
    /\ [](pc = "render" => Len(stack) <= Len(ValuesOf(Processed)))

\* C27 witness: the documented buffer, stored as | cat & rat fat, has been
\* displayed with fat leftmost and cat rightmost.
C27_Witness ==
    /\ input.kind = "bytes" /\ input.bytes = DocBuffer
    /\ Len(log) = 1
    /\ NoUnderflow(self[1])
    /\ ValueTokens(log[1]) = << B("'fat'"), B("'rat'"), B("'cat'") >>

=============================================================================
